---------------------------- MODULE Spec2Model ----------------------------
(***************************************************************************)
(* The tax computation engine of AmatoreTaxWeb (tax_calculator.py):        *)
(* progressive-bracket federal tax, self-employment tax, the simplified    *)
(* QBI deduction and the baseline / scenario composers.                    *)
(*                                                                         *)
(* Representation.  Money is an integer number of cents.  A rate r of the  *)
(* source is the pair num/den with r = num/den (.12 is 12/100, 0.9235 is   *)
(* 9235/10000).  A product of an amount and a rate is kept exactly, as a   *)
(* fixed-point pair <<whole cents, fraction>> with the fraction counted    *)
(* in units of 1/Scale cent, so no intermediate value is truncated and no  *)
(* product leaves the range of the model checker's integers.  The binary   *)
(* representation error of Python floats (below 1e-9 dollar here) is not   *)
(* modelled, with one exception: round(x, 2) on a value that lies exactly  *)
(* halfway between two cents.  There the float that Python rounds is a     *)
(* hair above or below the half (round(0.05*0.10, 2) is 0.01 while         *)
(* round(0.15*0.10, 2) is 0.01 too), so the model lets such a rounding     *)
(* go either way.  Functions that round therefore denote the SET of        *)
(* values the call can return; it is a singleton except at exact halves.   *)
(***************************************************************************)
EXTENDS Integers, Sequences, FiniteSets, TLC

VARIABLES fn, arg, ret, res, exc, app, calls, tables

vars == <<fn, arg, ret, res, exc, app, calls, tables>>

---------------------------------------------------------------------------
(* Bounds of the explored input space.                                     *)

\* amounts are explored up to MaxOff cents on either side of each point of
\* interest (bracket thresholds, the wage-base crossing, zero)
MaxOff == 6

\* ... and the same amounts MaxStep whole dollars higher
MaxStep == 1

---------------------------------------------------------------------------
(* Units and exact fixed-point arithmetic.                                 *)

Dollars(n) == n * 100

Scale == 10000000

Max(a, b) == IF a >= b THEN a ELSE b

Min(a, b) == IF a <= b THEN a ELSE b

Fx(c) == <<c, 0>>

\* x * num / den, exact, for x >= 0 whose fraction is a multiple of den
FxMul(x, num, den) ==
    LET p  == (x[1] % den) * num
        fr == (p % den) * (Scale \div den) + (x[2] \div den) * num
    IN  <<(x[1] \div den) * num + p \div den + fr \div Scale, fr % Scale>>

FxAdd(x, y) ==
    <<x[1] + y[1] + (x[2] + y[2]) \div Scale, (x[2] + y[2]) % Scale>>

FxLeq(x, y) == x[1] < y[1] \/ (x[1] = y[1] /\ x[2] <= y[2])

FxMin(x, y) == IF FxLeq(x, y) THEN x ELSE y

\* round(x, 2): the nearest cent; at an exact half either neighbour
round(x) ==
    IF 2 * x[2] < Scale THEN {x[1]}
    ELSE IF 2 * x[2] > Scale THEN {x[1] + 1}
    ELSE {x[1], x[1] + 1}

---------------------------------------------------------------------------
(* Tables and constants.                                                   *)

Statuses == {"S", "MFJ", "HOH"}

\* each bracket is <<start, rate in percent>>
BRACKETS ==
    [S   |-> << <<Dollars(0), 10>>, <<Dollars(11600), 12>>,
                <<Dollars(47150), 22>>, <<Dollars(100525), 24>>,
                <<Dollars(191950), 32>>, <<Dollars(243725), 35>>,
                <<Dollars(609350), 37>> >>,
     MFJ |-> << <<Dollars(0), 10>>, <<Dollars(23200), 12>>,
                <<Dollars(94300), 22>>, <<Dollars(201050), 24>>,
                <<Dollars(383900), 32>>, <<Dollars(487450), 35>>,
                <<Dollars(731200), 37>> >>,
     HOH |-> << <<Dollars(0), 10>>, <<Dollars(16550), 12>>,
                <<Dollars(63100), 22>>, <<Dollars(100500), 24>>,
                <<Dollars(191950), 32>>, <<Dollars(243700), 35>>,
                <<Dollars(609350), 37>> >>]

STANDARD_DED ==
    [S |-> Dollars(14600), MFJ |-> Dollars(29200), HOH |-> Dollars(21900)]

SS_WAGE_BASE == Dollars(168600)

\* 0.9235, 0.029, 0.124 and the 0.2 of the QBI deduction, as num/den
SE_MULTIPLIER == <<9235, 10000>>

MEDICARE_RATE == <<29, 1000>>

SOCSEC_RATE == <<124, 1000>>

QBI_RATE == <<2, 10>>

\* float("inf"): above every amount
Infinity == 2147483647

---------------------------------------------------------------------------
(* The engine's functions.                                                 *)

\* table[key] raises KeyError
KeyError(table, key) == key \notin DOMAIN table

\* taxable_income without its floor at zero
taxable_income_nofloor(status, wages, sch_c, other_income, itemized) ==
    LET std == STANDARD_DED[status]
    IN  wages + sch_c + other_income - Max(std, itemized)

taxable_income(status, wages, sch_c, other_income, itemized) ==
    LET std == STANDARD_DED[status]
    IN  Max(0, wages + sch_c + other_income - Max(std, itemized))

\* taxable_income ends in an exception: its first statement looks the
\* status up in STANDARD_DED
taxable_income_raises(status) == KeyError(STANDARD_DED, status)

\* federal_tax ends in an exception: its first statement looks the status
\* up in BRACKETS
federal_tax_raises(status) == KeyError(BRACKETS, status)

\* the loop of federal_tax taxing everything above a bracket's start at
\* that bracket's rate (min(taxable, end) dropped)
RECURSIVE federal_tax_loop_nomin(_, _, _, _)
federal_tax_loop_nomin(br, taxable, i, tax) ==
    IF i > Len(br) THEN tax
    ELSE LET start == br[i][1]
             rate  == br[i][2]
         IN  IF taxable > start
             THEN federal_tax_loop_nomin(br, taxable, i + 1,
                     FxAdd(tax, FxMul(Fx(taxable - start), rate, 100)))
             ELSE tax

\* the loop of federal_tax overwriting the running total (= for +=)
RECURSIVE federal_tax_loop_assign(_, _, _, _)
federal_tax_loop_assign(br, taxable, i, tax) ==
    IF i > Len(br) THEN tax
    ELSE LET start == br[i][1]
             rate  == br[i][2]
             end   == IF i + 1 <= Len(br) THEN br[i + 1][1] ELSE Infinity
         IN  IF taxable > start
             THEN federal_tax_loop_assign(br, taxable, i + 1,
                     FxMul(Fx(Min(taxable, end) - start), rate, 100))
             ELSE tax

\* the loop of federal_tax from bracket i on, with the running total tax
RECURSIVE federal_tax_loop(_, _, _, _)
federal_tax_loop(br, taxable, i, tax) ==
    IF i > Len(br) THEN tax
    ELSE LET start == br[i][1]
             rate  == br[i][2]
             end   == IF i + 1 <= Len(br) THEN br[i + 1][1] ELSE Infinity
         IN  IF taxable > start
             THEN LET taxed == Min(taxable, end) - start
                  IN  federal_tax_loop(br, taxable, i + 1,
                         IF taxed > 0
                         THEN FxAdd(tax, FxMul(Fx(taxed), rate, 100))
                         ELSE tax)
             ELSE tax

federal_tax(taxable, status) ==
    round(federal_tax_loop(BRACKETS[status], taxable, 1, Fx(0)))

\* se_tax_from_sch_c with the wage-base cap applied to the Medicare part too
se_tax_from_sch_c_capboth(sch_c) ==
    IF sch_c <= 0 THEN {0}
    ELSE LET base == FxMin(FxMul(Fx(sch_c), SE_MULTIPLIER[1],
                                 SE_MULTIPLIER[2]),
                           Fx(SS_WAGE_BASE))
         IN  round(FxAdd(FxMul(base, SOCSEC_RATE[1], SOCSEC_RATE[2]),
                         FxMul(base, MEDICARE_RATE[1], MEDICARE_RATE[2])))

\* se_tax_from_sch_c without the wage-base cap
se_tax_from_sch_c_nocap(sch_c) ==
    IF sch_c <= 0 THEN {0}
    ELSE LET base == FxMul(Fx(sch_c), SE_MULTIPLIER[1], SE_MULTIPLIER[2])
         IN  round(FxAdd(FxMul(base, SOCSEC_RATE[1], SOCSEC_RATE[2]),
                         FxMul(base, MEDICARE_RATE[1], MEDICARE_RATE[2])))

se_tax_from_sch_c(sch_c) ==
    IF sch_c <= 0 THEN {0}
    ELSE LET base == FxMul(Fx(sch_c), SE_MULTIPLIER[1], SE_MULTIPLIER[2])
         IN  round(FxAdd(FxMul(FxMin(base, Fx(SS_WAGE_BASE)),
                               SOCSEC_RATE[1], SOCSEC_RATE[2]),
                         FxMul(base, MEDICARE_RATE[1], MEDICARE_RATE[2])))

\* qbi_from_sch_c without the cap at the pre-QBI taxable income
qbi_from_sch_c_nocap(sch_c_after_rc, status, wages, other_income, itemized) ==
    IF sch_c_after_rc <= 0 THEN {0}
    ELSE round(FxMul(Fx(sch_c_after_rc), QBI_RATE[1], QBI_RATE[2]))

qbi_from_sch_c(sch_c_after_rc, status, wages, other_income, itemized) ==
    IF sch_c_after_rc <= 0 THEN {0}
    ELSE LET taxable_before ==
                 Max(0, wages + sch_c_after_rc + other_income
                        - Max(STANDARD_DED[status], itemized))
         IN  round(FxMin(FxMul(Fx(sch_c_after_rc), QBI_RATE[1], QBI_RATE[2]),
                         Fx(taxable_before)))

\* qbi_from_sch_c ends in an exception: it looks the status up only after
\* its early return for a profit <= 0
qbi_from_sch_c_raises(sch_c_after_rc, status) ==
    sch_c_after_rc > 0 /\ KeyError(STANDARD_DED, status)

\* the result dictionaries a composer can return, given its intermediate
\* taxable income ti, the possible SE taxes and the possible QBI deductions
Results(status, ti, ses, qbis) ==
    UNION { UNION { { [taxable_income |-> Max(0, ti - qbi),
                       federal_tax    |-> fed,
                       se_tax         |-> se,
                       qbi            |-> qbi,
                       total_tax      |-> fed + se]
                      : fed \in federal_tax(Max(0, ti - qbi), status) }
                    : se \in ses }
            : qbi \in qbis }

\* compute_baseline taxing the pre-QBI taxable income
compute_baseline_preqbi(inp) ==
    LET ti == taxable_income(inp.status, inp.wages, inp.sch_c,
                             inp.other_income, inp.itemized)
    IN  UNION { UNION { { [taxable_income |-> Max(0, ti - qbi),
                           federal_tax    |-> fed,
                           se_tax         |-> se,
                           qbi            |-> qbi,
                           total_tax      |-> fed + se]
                          : fed \in federal_tax(ti, inp.status) }
                        : se \in se_tax_from_sch_c(inp.sch_c) }
                : qbi \in qbi_from_sch_c(inp.sch_c, inp.status, inp.wages,
                                         inp.other_income, inp.itemized) }

compute_baseline(inp) ==
    LET ti == taxable_income(inp.status, inp.wages, inp.sch_c,
                             inp.other_income, inp.itemized)
    IN  Results(inp.status, ti,
                se_tax_from_sch_c(inp.sch_c),
                qbi_from_sch_c(inp.sch_c, inp.status, inp.wages,
                               inp.other_income, inp.itemized))

\* compute_baseline ends in an exception: one of its calls does
compute_baseline_raises(inp) ==
    \/ taxable_income_raises(inp.status)
    \/ qbi_from_sch_c_raises(inp.sch_c, inp.status)
    \/ federal_tax_raises(inp.status)

\* compute_scenario ends in an exception: one of its calls does
compute_scenario_raises(inp) ==
    IF inp.s_corp
    THEN \/ qbi_from_sch_c_raises(Max(0, inp.sch_c - inp.reasonable_comp),
                                  inp.status)
         \/ taxable_income_raises(inp.status)
         \/ federal_tax_raises(inp.status)
    ELSE compute_baseline_raises(inp)

\* compute_scenario charging SE tax on the profit left after the
\* reasonable compensation
compute_scenario_se(inp) ==
    IF inp.s_corp
    THEN LET sch == Max(0, inp.sch_c - inp.reasonable_comp)
             ti  == taxable_income(inp.status,
                                   inp.wages + inp.reasonable_comp, sch,
                                   inp.other_income, inp.itemized)
         IN  Results(inp.status, ti, se_tax_from_sch_c(sch),
                     qbi_from_sch_c(sch, inp.status,
                                    inp.wages + inp.reasonable_comp,
                                    inp.other_income, inp.itemized))
    ELSE compute_baseline(inp)

\* compute_scenario reclassifying the reasonable compensation into wages
\* whether or not the election is on
compute_scenario_reclass(inp) ==
    IF inp.s_corp
    THEN LET sch == Max(0, inp.sch_c - inp.reasonable_comp)
             ti  == taxable_income(inp.status,
                                   inp.wages + inp.reasonable_comp, sch,
                                   inp.other_income, inp.itemized)
         IN  Results(inp.status, ti, {0},
                     qbi_from_sch_c(sch, inp.status,
                                    inp.wages + inp.reasonable_comp,
                                    inp.other_income, inp.itemized))
    ELSE compute_baseline([inp EXCEPT
                              !.wages = inp.wages + inp.reasonable_comp,
                              !.sch_c = Max(0, inp.sch_c
                                               - inp.reasonable_comp)])

\* compute_scenario taking the reasonable compensation out of the profit
\* without adding it to the wages
compute_scenario_nowages(inp) ==
    IF inp.s_corp
    THEN LET sch == Max(0, inp.sch_c - inp.reasonable_comp)
             ti  == taxable_income(inp.status, inp.wages, sch,
                                   inp.other_income, inp.itemized)
         IN  Results(inp.status, ti, {0},
                     qbi_from_sch_c(sch, inp.status, inp.wages,
                                    inp.other_income, inp.itemized))
    ELSE compute_baseline(inp)

\* compute_scenario without the floor of the remaining profit at 0
compute_scenario_nofloor(inp) ==
    IF inp.s_corp
    THEN LET sch == inp.sch_c - inp.reasonable_comp
             ti  == taxable_income(inp.status,
                                   inp.wages + inp.reasonable_comp, sch,
                                   inp.other_income, inp.itemized)
         IN  Results(inp.status, ti, {0},
                     qbi_from_sch_c(sch, inp.status,
                                    inp.wages + inp.reasonable_comp,
                                    inp.other_income, inp.itemized))
    ELSE compute_baseline(inp)

compute_scenario(inp) ==
    IF inp.s_corp
    THEN LET sch == Max(0, inp.sch_c - inp.reasonable_comp)
             ti  == taxable_income(inp.status,
                                   inp.wages + inp.reasonable_comp, sch,
                                   inp.other_income, inp.itemized)
         IN  Results(inp.status, ti, {0},
                     qbi_from_sch_c(sch, inp.status,
                                    inp.wages + inp.reasonable_comp,
                                    inp.other_income, inp.itemized))
    ELSE compute_baseline(inp)

---------------------------------------------------------------------------
(* The inputs explored.                                                    *)

\* the amounts within MaxOff cents of a point of P, and those MaxStep
\* whole dollars above them
Near(P) ==
    {p + d + Dollars(e) : p \in P, d \in -MaxOff .. MaxOff, e \in 0 .. MaxStep}

\* the statuses a caller can pass: those of the tables and one that is in
\* neither table (married filing separately)
StatusArgs == Statuses \cup {"MFS"}

Thresholds(status) ==
    {BRACKETS[status][i][1] : i \in 1 .. Len(BRACKETS[status])}

\* taxable amounts: around every bracket threshold of the status
TaxableAmounts(status) == {t \in Near(Thresholds(status)) : t >= 0}

\* profits: losses, zero, the spec's example, the profit whose 92.35% is
\* the wage base (18256632 cents falls just short, 18256633 just passes),
\* and a profit well above it
Profits == Near({Dollars(0), Dollars(60000), 18256632, Dollars(300000)})

\* the fields of Inputs
InputsSet ==
    [status          : StatusArgs,
     wages           : {Dollars(0), Dollars(120000)},
     sch_c           : {-Dollars(5000), Dollars(0), Dollars(20000) + 3,
                        Dollars(60000), Dollars(200000)},
     other_income    : {Dollars(0), Dollars(5000)},
     itemized        : {Dollars(0), Dollars(12000), Dollars(18000)},
     reasonable_comp : {Dollars(0), Dollars(30000), Dollars(72000)},
     s_corp          : BOOLEAN]

\* arguments of the functions that take the income figures one by one
Incomes ==
    [status       : StatusArgs,
     wages        : {Dollars(0), Dollars(120000)},
     sch_c        : Near({Dollars(0), Dollars(20000)}) \cup {Dollars(60000)},
     other_income : {Dollars(0), Dollars(5000)},
     itemized     : {Dollars(0), Dollars(12000), Dollars(18000)}]

NoArg == [status |-> "S"]

NoResult ==
    [taxable_income |-> 0, federal_tax |-> 0, se_tax |-> 0, qbi |-> 0,
     total_tax |-> 0]

NoExc == [type |-> "none"]

\* the front end is not running
NoApp == [pc |-> "none"]

\* no evaluation is in progress
NoCalls == <<>>

\* the module-level tables and constants of the engine
Globals ==
    [BRACKETS |-> BRACKETS, STANDARD_DED |-> STANDARD_DED,
     SS_WAGE_BASE |-> SS_WAGE_BASE, SE_MULTIPLIER |-> SE_MULTIPLIER,
     MEDICARE_RATE |-> MEDICARE_RATE, SOCSEC_RATE |-> SOCSEC_RATE]

\* the exception that leaves function f called on a
Raised(f, a) == [type |-> "KeyError", fn |-> f, arg |-> a]

---------------------------------------------------------------------------
(* The state machine: the engine is idle (fn = "none"), or has just       *)
(* returned from a call of fn on arg with the number ret or the            *)
(* dictionary res, or a call has just ended in the exception exc, which    *)
(* has reached the caller in place of a result.                            *)
(***************************************************************************)

Init ==
    /\ fn = "none"
    /\ arg = NoArg
    /\ ret = 0
    /\ res = NoResult
    /\ exc = NoExc
    /\ app = NoApp
    /\ calls = NoCalls
    /\ tables = Globals

Idle == fn = "none" /\ exc = NoExc

call_taxable_income ==
    /\ Idle
    /\ UNCHANGED <<app, calls, tables>>
    /\ \E a \in Incomes :
          IF taxable_income_raises(a.status)
          THEN /\ exc' = Raised("taxable_income", a)
               /\ UNCHANGED <<fn, arg, ret, res>>
          ELSE /\ arg' = a
               /\ ret' = taxable_income(a.status, a.wages, a.sch_c,
                                        a.other_income, a.itemized)
               /\ fn' = "taxable_income"
               /\ UNCHANGED <<res, exc>>

call_federal_tax ==
    /\ Idle
    /\ UNCHANGED <<app, calls, tables>>
    /\ \E status \in StatusArgs :
          IF federal_tax_raises(status)
          THEN /\ exc' = Raised("federal_tax", [status |-> status])
               /\ UNCHANGED <<fn, arg, ret, res>>
          ELSE \E taxable \in TaxableAmounts(status) :
                  /\ arg' = [status |-> status, taxable |-> taxable]
                  /\ ret' \in federal_tax(taxable, status)
                  /\ fn' = "federal_tax"
                  /\ UNCHANGED <<res, exc>>

call_se_tax_from_sch_c ==
    /\ Idle
    /\ UNCHANGED <<app, calls, tables>>
    /\ \E sch_c \in Profits :
          /\ arg' = [status |-> "S", sch_c |-> sch_c]
          /\ ret' \in se_tax_from_sch_c(sch_c)
    /\ fn' = "se_tax_from_sch_c"
    /\ UNCHANGED <<res, exc>>

call_qbi_from_sch_c ==
    /\ Idle
    /\ UNCHANGED <<app, calls, tables>>
    /\ \E a \in Incomes :
          IF qbi_from_sch_c_raises(a.sch_c, a.status)
          THEN /\ exc' = Raised("qbi_from_sch_c", a)
               /\ UNCHANGED <<fn, arg, ret, res>>
          ELSE /\ arg' = a
               /\ ret' \in qbi_from_sch_c(a.sch_c, a.status, a.wages,
                                          a.other_income, a.itemized)
               /\ fn' = "qbi_from_sch_c"
               /\ UNCHANGED <<res, exc>>

call_compute_baseline ==
    /\ Idle
    /\ UNCHANGED <<app, calls, tables>>
    /\ \E inp \in InputsSet :
          IF compute_baseline_raises(inp)
          THEN /\ exc' = Raised("compute_baseline", inp)
               /\ UNCHANGED <<fn, arg, ret, res>>
          ELSE /\ arg' = inp
               /\ res' \in compute_baseline(inp)
               /\ fn' = "compute_baseline"
               /\ UNCHANGED <<ret, exc>>

call_compute_scenario ==
    /\ Idle
    /\ UNCHANGED <<app, calls, tables>>
    /\ \E inp \in InputsSet :
          IF compute_scenario_raises(inp)
          THEN /\ exc' = Raised("compute_scenario", inp)
               /\ UNCHANGED <<fn, arg, ret, res>>
          ELSE /\ arg' = inp
               /\ res' \in compute_scenario(inp)
               /\ fn' = "compute_scenario"
               /\ UNCHANGED <<ret, exc>>

\* the caller has consumed the result or the exception; nothing of the
\* call is kept
return ==
    /\ ~Idle
    /\ fn' = "none"
    /\ arg' = NoArg
    /\ ret' = 0
    /\ res' = NoResult
    /\ exc' = NoExc
    /\ UNCHANGED <<app, calls, tables>>

Next ==
    \/ call_taxable_income
    \/ call_federal_tax
    \/ call_se_tax_from_sch_c
    \/ call_qbi_from_sch_c
    \/ call_compute_baseline
    \/ call_compute_scenario
    \/ return

Spec == Init /\ [][Next]_vars

---------------------------------------------------------------------------
(* The caller, app.py: one run of the script on the values of the form.    *)
(* It builds the baseline Inputs and evaluates them, builds the scenario   *)
(* Inputs and evaluates them, and then evaluates every configured          *)
(* strategy on its own.  app.pc is the position of the run, app.k the      *)
(* strategy the sweep has reached and app.ui the values of the form; fn,   *)
(* arg and res are the last call made to the engine.                       *)

\* at most MaxStrategies strategies are configured
MaxStrategies == 2

\* a strategy configuration: the catalog type, the amount entered and the
\* target chosen ("Schedule C ..." or "Itemized deductions ...")
StrategyConfigs ==
    [type   : {"custom_augusta", "deduction_sc", "deduction_itemized",
               "income_increase"},
     amount : {Dollars(0), Dollars(100000)},
     target : {"Schedule", "Itemized"}]

\* the values the form can hold (whole dollars from 0 to 5,000,000)
UiInputs ==
    [status       : {"MFJ", "S", "HOH"},
     wages        : {Dollars(120000)},
     schc_1099    : {Dollars(0), Dollars(60000)},
     other_income : {Dollars(0), Dollars(5000)},
     itemized     : {Dollars(12000)},
     s_elect      : BOOLEAN,
     rc           : {Dollars(72000)},
     strategy_configs :
         UNION {[1 .. n -> StrategyConfigs] : n \in 0 .. MaxStrategies}]

\* the loop over strategy_configs that aggregates the effects, from
\* configuration i on
RECURSIVE deduct_to_sc(_, _)
deduct_to_sc(cfgs, i) ==
    IF i > Len(cfgs) THEN 0
    ELSE (IF /\ cfgs[i].type \in {"deduction_sc", "custom_augusta"}
             /\ cfgs[i].target = "Schedule"
          THEN cfgs[i].amount ELSE 0) + deduct_to_sc(cfgs, i + 1)

RECURSIVE deduct_to_itemized(_, _)
deduct_to_itemized(cfgs, i) ==
    IF i > Len(cfgs) THEN 0
    ELSE (IF \/ /\ cfgs[i].type \in {"deduction_sc", "custom_augusta"}
                /\ cfgs[i].target # "Schedule"
             \/ cfgs[i].type = "deduction_itemized"
          THEN cfgs[i].amount ELSE 0) + deduct_to_itemized(cfgs, i + 1)

RECURSIVE income_add(_, _)
income_add(cfgs, i) ==
    IF i > Len(cfgs) THEN 0
    ELSE (IF cfgs[i].type = "income_increase" THEN cfgs[i].amount ELSE 0)
         + income_add(cfgs, i + 1)

inp_base(ui) ==
    [status |-> ui.status, wages |-> ui.wages, sch_c |-> ui.schc_1099,
     other_income |-> ui.other_income, itemized |-> ui.itemized,
     reasonable_comp |-> 0, s_corp |-> FALSE]

\* inp_scen with the income-raising strategies subtracted from the other
\* income
inp_scen_minus(ui) ==
    [status |-> ui.status, wages |-> ui.wages,
     sch_c |-> ui.schc_1099 - deduct_to_sc(ui.strategy_configs, 1),
     other_income |-> ui.other_income - income_add(ui.strategy_configs, 1),
     itemized |->
         Max(0, ui.itemized + deduct_to_itemized(ui.strategy_configs, 1)),
     reasonable_comp |-> ui.rc, s_corp |-> ui.s_elect]

inp_scen(ui) ==
    [status |-> ui.status, wages |-> ui.wages,
     sch_c |-> ui.schc_1099 - deduct_to_sc(ui.strategy_configs, 1),
     other_income |-> ui.other_income + income_add(ui.strategy_configs, 1),
     itemized |->
         Max(0, ui.itemized + deduct_to_itemized(ui.strategy_configs, 1)),
     reasonable_comp |-> ui.rc, s_corp |-> ui.s_elect]

\* the Inputs that combined_tax_with_only builds for configuration cfg
inp_only(ui, cfg) ==
    LET amt == cfg.amount
        sc  == IF /\ cfg.type \in {"deduction_sc", "custom_augusta"}
                  /\ cfg.target = "Schedule"
               THEN ui.schc_1099 - amt ELSE ui.schc_1099
        it  == IF \/ /\ cfg.type \in {"deduction_sc", "custom_augusta"}
                     /\ cfg.target # "Schedule"
                  \/ cfg.type = "deduction_itemized"
               THEN ui.itemized + amt ELSE ui.itemized
        oi  == IF cfg.type = "income_increase"
               THEN ui.other_income + amt ELSE ui.other_income
    IN  [status |-> ui.status, wages |-> ui.wages, sch_c |-> sc,
         other_income |-> oi, itemized |-> Max(0, it),
         reasonable_comp |-> ui.rc, s_corp |-> ui.s_elect]

InitApp ==
    /\ fn = "none"
    /\ arg = NoArg
    /\ ret = 0
    /\ res = NoResult
    /\ exc = NoExc
    /\ app \in {[pc |-> "start", k |-> 1, ui |-> u] : u \in UiInputs}
    /\ calls = NoCalls
    /\ tables = Globals

\* inp_base = Inputs(...); base = compute_baseline(inp_base)
app_baseline ==
    /\ app.pc = "start"
    /\ arg' = inp_base(app.ui)
    /\ res' \in compute_baseline(inp_base(app.ui))
    /\ fn' = "compute_baseline"
    /\ app' = [app EXCEPT !.pc = "baseline"]
    /\ UNCHANGED <<ret, exc, calls, tables>>

\* inp_scen = Inputs(...); scen = compute_scenario(inp_scen)
app_scenario ==
    /\ app.pc = "baseline"
    /\ arg' = inp_scen(app.ui)
    /\ res' \in compute_scenario(inp_scen(app.ui))
    /\ fn' = "compute_scenario"
    /\ app' = [app EXCEPT !.pc = "scenario"]
    /\ UNCHANGED <<ret, exc, calls, tables>>

\* one iteration of the per-strategy loop: a strategy without amount is
\* skipped, any other is evaluated alone by combined_tax_with_only
app_per_strategy ==
    /\ app.pc \in {"scenario", "sweep"}
    /\ app.k <= Len(app.ui.strategy_configs)
    /\ LET cfg == app.ui.strategy_configs[app.k]
       IN  IF cfg.amount <= 0
           THEN UNCHANGED <<fn, arg, res>>
           ELSE /\ arg' = inp_only(app.ui, cfg)
                /\ res' \in compute_scenario(inp_only(app.ui, cfg))
                /\ fn' = "compute_scenario"
    /\ app' = [app EXCEPT !.pc = "sweep", !.k = app.k + 1]
    /\ UNCHANGED <<ret, exc, calls, tables>>

\* the loop is over; the run goes on to display the results
app_display ==
    /\ app.pc \in {"scenario", "sweep"}
    /\ app.k > Len(app.ui.strategy_configs)
    /\ app' = [app EXCEPT !.pc = "display"]
    /\ UNCHANGED <<fn, arg, ret, res, exc, calls, tables>>

NextApp ==
    \/ app_baseline
    \/ app_scenario
    \/ app_per_strategy
    \/ app_display

SpecApp == InitApp /\ [][NextApp]_vars

---------------------------------------------------------------------------
(* Evaluations side by side.  calls[c] is the frame of evaluation c: the   *)
(* function called, the Inputs object it was given, the line it has        *)
(* reached (pc), its local variables and, once it has returned, the        *)
(* dictionary it returned (out).  Every action is one line of              *)
(* compute_baseline or compute_scenario, taken by one of the evaluations,  *)
(* so the lines of different evaluations interleave in every order.        *)
(* tables are the module's globals.                                        *)

\* NCalls evaluations are in progress
NCalls == 2

\* the Inputs the evaluations are given: the joint filer with 120,000 of
\* wages, with and without the S-Corp election
ParInputs ==
    {i \in InputsSet :
        /\ i.status = "MFJ"
        /\ i.wages = Dollars(120000)
        /\ i.sch_c \in {Dollars(60000), Dollars(200000)}
        /\ i.other_income = Dollars(5000)
        /\ i.itemized = Dollars(12000)
        /\ i.reasonable_comp = Dollars(72000)
        /\ i.s_corp => i.sch_c = Dollars(200000)}

\* the frame of a call of f on inp, before its first line
Frame(f, inp) ==
    [fn |-> f, inp |-> inp,
     pc |-> IF f = "compute_baseline" THEN "ti" ELSE "if",
     sch |-> 0, ti |-> 0, se |-> 0, qbi |-> 0, ti_qbi |-> 0, fed |-> 0,
     total |-> 0, out |-> NoResult]

\* every evaluation reads the locals of evaluation 1, as if they were
\* globals of the module
local_shared(c, v) == calls[1][v]

\* the local variable v of evaluation c
local(c, v) == calls[c][v]

\* the reclassification writes the profit left after the salary to the
\* Inputs object itself
reclassify_inplace(f) ==
    [f EXCEPT !.sch = Max(0, f.inp.sch_c - f.inp.reasonable_comp),
              !.inp.sch_c = Max(0, f.inp.sch_c - f.inp.reasonable_comp),
              !.pc = "s_se"]

\* sch=max(0,inp.sch_c - inp.reasonable_comp)
reclassify(f) ==
    [f EXCEPT !.sch = Max(0, f.inp.sch_c - f.inp.reasonable_comp),
              !.pc = "s_se"]

InitPar ==
    /\ fn = "none"
    /\ arg = NoArg
    /\ ret = 0
    /\ res = NoResult
    /\ exc = NoExc
    /\ app = NoApp
    /\ calls \in [1 .. NCalls ->
                    {Frame(f, i) : f \in {"compute_baseline",
                                          "compute_scenario"},
                                   i \in ParInputs}]
    /\ tables = Globals

\* ti=taxable_income(inp.status,inp.wages,inp.sch_c,...)
baseline_ti ==
    /\ \E c \in DOMAIN calls :
          /\ calls[c].pc = "ti"
          /\ calls' = [calls EXCEPT
                 ![c].ti = taxable_income(calls[c].inp.status,
                               calls[c].inp.wages, calls[c].inp.sch_c,
                               calls[c].inp.other_income,
                               calls[c].inp.itemized),
                 ![c].pc = "se"]
    /\ UNCHANGED <<fn, arg, ret, res, exc, app, tables>>

\* se=se_tax_from_sch_c(inp.sch_c)
baseline_se ==
    /\ \E c \in DOMAIN calls :
          /\ calls[c].pc = "se"
          /\ \E v \in se_tax_from_sch_c(calls[c].inp.sch_c) :
                calls' = [calls EXCEPT ![c].se = v, ![c].pc = "qbi"]
    /\ UNCHANGED <<fn, arg, ret, res, exc, app, tables>>

\* qbi=qbi_from_sch_c(inp.sch_c,inp.status,inp.wages,...)
baseline_qbi ==
    /\ \E c \in DOMAIN calls :
          /\ calls[c].pc = "qbi"
          /\ \E v \in qbi_from_sch_c(calls[c].inp.sch_c,
                          calls[c].inp.status, calls[c].inp.wages,
                          calls[c].inp.other_income,
                          calls[c].inp.itemized) :
                calls' = [calls EXCEPT ![c].qbi = v, ![c].pc = "ti_qbi"]
    /\ UNCHANGED <<fn, arg, ret, res, exc, app, tables>>

\* if inp.s_corp: ... else: return compute_baseline(inp)
scenario_if ==
    /\ \E c \in DOMAIN calls :
          /\ calls[c].pc = "if"
          /\ calls' = [calls EXCEPT
                 ![c].pc = IF calls[c].inp.s_corp THEN "s_sch" ELSE "ti"]
    /\ UNCHANGED <<fn, arg, ret, res, exc, app, tables>>

\* sch=max(0,inp.sch_c - inp.reasonable_comp)
scenario_sch ==
    /\ \E c \in DOMAIN calls :
          /\ calls[c].pc = "s_sch"
          /\ calls' = [calls EXCEPT ![c] = reclassify(calls[c])]
    /\ UNCHANGED <<fn, arg, ret, res, exc, app, tables>>

\* se=0.0
scenario_se ==
    /\ \E c \in DOMAIN calls :
          /\ calls[c].pc = "s_se"
          /\ calls' = [calls EXCEPT ![c].se = 0, ![c].pc = "s_qbi"]
    /\ UNCHANGED <<fn, arg, ret, res, exc, app, tables>>

\* qbi=qbi_from_sch_c(sch,inp.status,inp.wages+inp.reasonable_comp,...)
scenario_qbi ==
    /\ \E c \in DOMAIN calls :
          /\ calls[c].pc = "s_qbi"
          /\ \E v \in qbi_from_sch_c(local(c, "sch"), calls[c].inp.status,
                          calls[c].inp.wages
                              + calls[c].inp.reasonable_comp,
                          calls[c].inp.other_income,
                          calls[c].inp.itemized) :
                calls' = [calls EXCEPT ![c].qbi = v, ![c].pc = "s_ti"]
    /\ UNCHANGED <<fn, arg, ret, res, exc, app, tables>>

\* ti=taxable_income(inp.status,inp.wages+inp.reasonable_comp,sch,...)
scenario_ti ==
    /\ \E c \in DOMAIN calls :
          /\ calls[c].pc = "s_ti"
          /\ calls' = [calls EXCEPT
                 ![c].ti = taxable_income(calls[c].inp.status,
                               calls[c].inp.wages
                                   + calls[c].inp.reasonable_comp,
                               local(c, "sch"),
                               calls[c].inp.other_income,
                               calls[c].inp.itemized),
                 ![c].pc = "ti_qbi"]
    /\ UNCHANGED <<fn, arg, ret, res, exc, app, tables>>

\* ti_qbi=max(0,ti-qbi), in either function
line_ti_qbi ==
    /\ \E c \in DOMAIN calls :
          /\ calls[c].pc = "ti_qbi"
          /\ calls' = [calls EXCEPT
                 ![c].ti_qbi = Max(0, local(c, "ti") - local(c, "qbi")),
                 ![c].pc = "fed"]
    /\ UNCHANGED <<fn, arg, ret, res, exc, app, tables>>

\* fed=federal_tax(ti_qbi,inp.status), in either function
line_fed ==
    /\ \E c \in DOMAIN calls :
          /\ calls[c].pc = "fed"
          /\ \E v \in federal_tax(local(c, "ti_qbi"), calls[c].inp.status) :
                calls' = [calls EXCEPT ![c].fed = v, ![c].pc = "total"]
    /\ UNCHANGED <<fn, arg, ret, res, exc, app, tables>>

\* total=fed+se, in either function
line_total ==
    /\ \E c \in DOMAIN calls :
          /\ calls[c].pc = "total"
          /\ calls' = [calls EXCEPT
                 ![c].total = local(c, "fed") + local(c, "se"),
                 ![c].pc = "return"]
    /\ UNCHANGED <<fn, arg, ret, res, exc, app, tables>>

\* return {"taxable_income":ti_qbi,"federal_tax":fed,...}, in either
\* function
line_return ==
    /\ \E c \in DOMAIN calls :
          /\ calls[c].pc = "return"
          /\ calls' = [calls EXCEPT
                 ![c].out = [taxable_income |-> local(c, "ti_qbi"),
                             federal_tax    |-> local(c, "fed"),
                             se_tax         |-> local(c, "se"),
                             qbi            |-> local(c, "qbi"),
                             total_tax      |-> local(c, "total")],
                 ![c].pc = "done"]
    /\ UNCHANGED <<fn, arg, ret, res, exc, app, tables>>

NextPar ==
    \/ baseline_ti
    \/ baseline_se
    \/ baseline_qbi
    \/ scenario_if
    \/ scenario_sch
    \/ scenario_se
    \/ scenario_qbi
    \/ scenario_ti
    \/ line_ti_qbi
    \/ line_fed
    \/ line_total
    \/ line_return

SpecPar == InitPar /\ [][NextPar]_vars

---------------------------------------------------------------------------
(* Properties.                                                             *)

HalfCent == <<0, Scale \div 2>>

\* index of the bracket a positive amount falls in: the last one that
\* starts below it (the first one for 0)
RECURSIVE BracketOf(_, _, _)
BracketOf(br, taxable, i) ==
    IF i < Len(br) /\ br[i + 1][1] < taxable
    THEN BracketOf(br, taxable, i + 1)
    ELSE i

ActiveRate(taxable, status) ==
    BRACKETS[status][BracketOf(BRACKETS[status], taxable, 1)][2]

\* sum over the brackets 1..i of max(0, min(T, start_{i+1}) - start_i) * rate_i
RECURSIVE BracketSum(_, _, _)
BracketSum(br, taxable, i) ==
    IF i = 0 THEN Fx(0)
    ELSE LET upper == IF i < Len(br) THEN Min(taxable, br[i + 1][1])
                      ELSE taxable
         IN  FxAdd(BracketSum(br, taxable, i - 1),
                   FxMul(Fx(Max(0, upper - br[i][1])), br[i][2], 100))

\* sum over the brackets i < k of (t_{i+1} - t_i) * rate_i
RECURSIVE LowerBrackets(_, _)
LowerBrackets(br, k) ==
    IF k <= 1 THEN Fx(0)
    ELSE FxAdd(LowerBrackets(br, k - 1),
               FxMul(Fx(br[k][1] - br[k - 1][1]), br[k - 1][2], 100))

\* t1 < t2 lie in one bracket, its two ends included
SameBracket(t1, t2, status) ==
    LET br == BRACKETS[status]
    IN  \E i \in 1 .. Len(br) :
           /\ br[i][1] <= t1
           /\ i < Len(br) => t2 <= br[i + 1][1]

\* C1: for non-negative wages, sch_c, other_income and itemized,
\* taxable_income returns the gross income less the larger of the standard
\* and the itemized deduction when that is positive and 0 otherwise; the
\* returned amount is never negative.
C1_TaxableIncome ==
    (fn = "taxable_income" /\ arg.sch_c >= 0) =>
        LET gross == arg.wages + arg.sch_c + arg.other_income
            ded   == IF arg.itemized > STANDARD_DED[arg.status]
                     THEN arg.itemized ELSE STANDARD_DED[arg.status]
        IN  /\ ret >= 0
            /\ gross >= ded => ret = gross - ded
            /\ gross < ded => ret = 0

\* a call whose itemized deduction beats the standard one and exceeds the
\* gross income, so that the floor at 0 applies
C1_Witness ==
    /\ fn = "taxable_income"
    /\ arg.sch_c >= 0
    /\ arg.itemized > STANDARD_DED[arg.status]
    /\ 0 < arg.wages + arg.sch_c + arg.other_income
    /\ arg.wages + arg.sch_c + arg.other_income < arg.itemized
    /\ ret = 0

\* C2 as stated: federal_tax(T) is the rounding of the sum over all
\* brackets of max(0, min(T, start_{i+1}) - start_i) * rate_i, and the
\* result never exceeds T times the rate of the bracket containing T.
C2_Original ==
    fn = "federal_tax" =>
        LET br == BRACKETS[arg.status]
        IN  /\ ret \in round(BracketSum(br, arg.taxable, Len(br)))
            /\ FxLeq(Fx(ret),
                     FxMul(Fx(arg.taxable),
                           ActiveRate(arg.taxable, arg.status), 100))

\* C2 amended: federal_tax(T) is the rounding of that sum; the sum before
\* rounding never exceeds T times the rate of the bracket containing T,
\* and the returned value exceeds that product by at most half a cent.
C2_BracketSum ==
    fn = "federal_tax" =>
        LET br    == BRACKETS[arg.status]
            sum   == BracketSum(br, arg.taxable, Len(br))
            bound == FxMul(Fx(arg.taxable),
                           ActiveRate(arg.taxable, arg.status), 100)
        IN  /\ ret \in round(sum)
            /\ FxLeq(sum, bound)
            /\ FxLeq(Fx(ret), FxAdd(bound, HalfCent))

\* a taxable amount in the last (unbounded) bracket whose tax has a
\* fraction of a cent to round
C2_Witness ==
    /\ fn = "federal_tax"
    /\ arg.taxable > BRACKETS[arg.status][Len(BRACKETS[arg.status])][1]
    /\ LET br == BRACKETS[arg.status]
       IN  BracketSum(br, arg.taxable, Len(br))[2] # 0

\* C3 as stated: federal_tax is non-decreasing in T, and for T1 < T2 in
\* the same bracket federal_tax(T2) - federal_tax(T1) equals (T2 - T1)
\* times the bracket's rate.
C3_Original ==
    fn = "federal_tax" =>
        \A t2 \in TaxableAmounts(arg.status) :
           \A r2 \in federal_tax(t2, arg.status) :
              arg.taxable < t2 =>
                 /\ ret <= r2
                 /\ SameBracket(arg.taxable, t2, arg.status) =>
                       Fx(r2 - ret) = FxMul(Fx(t2 - arg.taxable),
                                            ActiveRate(t2, arg.status), 100)

\* C3 amended: federal_tax is non-decreasing in T, and for T1 < T2 in the
\* same bracket federal_tax(T2) - federal_tax(T1) differs from (T2 - T1)
\* times the bracket's rate by at most one cent, and equals it when T1 and
\* T2 are whole-dollar amounts.
C3_Monotone ==
    fn = "federal_tax" =>
        \A t2 \in TaxableAmounts(arg.status) :
           \A r2 \in federal_tax(t2, arg.status) :
              arg.taxable < t2 =>
                 /\ ret <= r2
                 /\ SameBracket(arg.taxable, t2, arg.status) =>
                       LET rise == FxMul(Fx(t2 - arg.taxable),
                                         ActiveRate(t2, arg.status), 100)
                       IN  /\ FxLeq(Fx(r2 - ret - 1), rise)
                           /\ FxLeq(rise, Fx(r2 - ret + 1))
                           /\ (arg.taxable % 100 = 0 /\ t2 % 100 = 0) =>
                                 Fx(r2 - ret) = rise

\* a call strictly inside a bracket with a larger amount of the same
\* bracket on which the tax is strictly higher
C3_Witness ==
    /\ fn = "federal_tax"
    /\ arg.taxable > BRACKETS[arg.status][2][1]
    /\ \E t2 \in TaxableAmounts(arg.status) :
          /\ arg.taxable < t2
          /\ SameBracket(arg.taxable, t2, arg.status)
          /\ \E r2 \in federal_tax(t2, arg.status) : ret < r2

\* C4: at every bracket threshold t_k the tax equals the sum of the fully
\* taxed lower brackets, one cent to either side of t_k the tax is within
\* one cent of it (no jump), and federal_tax(0) = 0.
C4_Thresholds ==
    fn = "federal_tax" =>
        LET br == BRACKETS[arg.status]
        IN  /\ \A k \in 1 .. Len(br) :
                  /\ arg.taxable = br[k][1] =>
                        Fx(ret) = LowerBrackets(br, k)
                  /\ arg.taxable \in {br[k][1] - 1, br[k][1] + 1} =>
                        /\ FxLeq(Fx(ret - 1), LowerBrackets(br, k))
                        /\ FxLeq(LowerBrackets(br, k), Fx(ret + 1))
            /\ arg.taxable = 0 => ret = 0

\* a call exactly at the highest threshold of a table
C4_Witness ==
    /\ fn = "federal_tax"
    /\ arg.taxable = BRACKETS[arg.status][Len(BRACKETS[arg.status])][1]
    /\ ret > 0

\* the SE tax before rounding, by cases on the 92.35% base against the
\* 168600 wage base: 15.3% of the base up to it, and above it 12.4% of
\* the wage base plus 2.9% of the base
SeTaxExact(p) ==
    LET base == FxMul(Fx(p), 9235, 10000)
    IN  IF FxLeq(base, Fx(Dollars(168600)))
        THEN FxMul(base, 153, 1000)
        ELSE FxAdd(FxMul(Fx(Dollars(168600)), 124, 1000),
                   FxMul(base, 29, 1000))

\* the 92.35% base of profit p exceeds the wage base
AboveWageBase(p) ==
    ~FxLeq(FxMul(Fx(p), 9235, 10000), Fx(Dollars(168600)))

\* C5: se_tax_from_sch_c(p) is 0 for p <= 0 and for p > 0 the rounding to
\* cents of min(p * 0.9235, 168600) * 0.124 + p * 0.9235 * 0.029: the
\* Social Security part stops growing at the wage base, the Medicare part
\* does not.
C5_SeTax ==
    fn = "se_tax_from_sch_c" =>
        /\ arg.sch_c <= 0 => ret = 0
        /\ arg.sch_c > 0 => ret \in round(SeTaxExact(arg.sch_c))

\* a profit whose base is above the wage base
C5_Witness ==
    /\ fn = "se_tax_from_sch_c"
    /\ AboveWageBase(arg.sch_c)
    /\ ret > 2090640

\* the tax added by one more dollar of profit is smaller for a profit p
\* above the wage base than for any profit q that stays below it
SeSlopeDrops(p, r) ==
    (AboveWageBase(p) /\ p + Dollars(1) \in Profits) =>
        \A q \in Profits :
           (q > 0 /\ q + Dollars(1) \in Profits
                  /\ ~AboveWageBase(q + Dollars(1))) =>
              \A r1 \in se_tax_from_sch_c(p + Dollars(1)) :
                 \A s0 \in se_tax_from_sch_c(q) :
                    \A s1 \in se_tax_from_sch_c(q + Dollars(1)) :
                       r1 - r < s1 - s0

\* C6 as stated: for 0 < p1 < p2, se_tax(p1) < se_tax(p2), and the tax
\* added per extra dollar is smaller above the wage base than below it.
C6_Original ==
    (fn = "se_tax_from_sch_c" /\ arg.sch_c > 0) =>
        /\ \A p2 \in Profits :
              arg.sch_c < p2 =>
                 \A r2 \in se_tax_from_sch_c(p2) : ret < r2
        /\ SeSlopeDrops(arg.sch_c, ret)

\* C6 amended: for 0 < p1 < p2, se_tax(p1) <= se_tax(p2), strictly so when
\* p2 - p1 is at least one dollar, and the tax added per extra dollar is
\* smaller above the wage base than below it.
C6_Increasing ==
    (fn = "se_tax_from_sch_c" /\ arg.sch_c > 0) =>
        /\ \A p2 \in Profits :
              arg.sch_c < p2 =>
                 \A r2 \in se_tax_from_sch_c(p2) :
                    /\ ret <= r2
                    /\ p2 - arg.sch_c >= Dollars(1) => ret < r2
        /\ SeSlopeDrops(arg.sch_c, ret)

\* a profit above the wage base whose next dollar is explored too and
\* adds at most 3 cents of tax
C6_Witness ==
    /\ fn = "se_tax_from_sch_c"
    /\ AboveWageBase(arg.sch_c)
    /\ arg.sch_c + Dollars(1) \in Profits
    /\ \E r1 \in se_tax_from_sch_c(arg.sch_c + Dollars(1)) :
          /\ ret < r1
          /\ r1 - ret <= 3

\* what the claims call the pre-QBI taxable income of a call
PreQbiTaxable(a) ==
    LET gross == a.wages + a.sch_c + a.other_income
        ded   == IF a.itemized > STANDARD_DED[a.status]
                 THEN a.itemized ELSE STANDARD_DED[a.status]
    IN  IF gross > ded THEN gross - ded ELSE 0

\* C7 as stated: qbi_from_sch_c returns 0 for profit <= 0 and otherwise
\* min(0.2 * profit, pre-QBI taxable income); it never exceeds 0.2 * profit
\* nor the pre-QBI taxable income.
C7_Original ==
    (fn = "qbi_from_sch_c" /\ arg.wages >= 0 /\ arg.other_income >= 0
                           /\ arg.itemized >= 0) =>
        LET fifth == FxMul(Fx(arg.sch_c), 2, 10)
        IN  /\ arg.sch_c <= 0 => ret = 0
            /\ arg.sch_c > 0 =>
                  /\ Fx(ret) = FxMin(fifth, Fx(PreQbiTaxable(arg)))
                  /\ FxLeq(Fx(ret), fifth)
                  /\ ret <= PreQbiTaxable(arg)

\* C7 amended: qbi_from_sch_c returns 0 for profit <= 0 and otherwise
\* min(0.2 * profit, pre-QBI taxable income) rounded to the nearest cent;
\* it exceeds 0.2 * profit by at most half a cent and, for amounts in
\* whole cents, never exceeds the pre-QBI taxable income.
C7_Qbi ==
    (fn = "qbi_from_sch_c" /\ arg.wages >= 0 /\ arg.other_income >= 0
                           /\ arg.itemized >= 0) =>
        LET fifth == FxMul(Fx(arg.sch_c), 2, 10)
        IN  /\ arg.sch_c <= 0 => ret = 0
            /\ arg.sch_c > 0 =>
                  /\ ret \in round(FxMin(fifth, Fx(PreQbiTaxable(arg))))
                  /\ FxLeq(Fx(ret), FxAdd(fifth, HalfCent))
                  /\ ret <= PreQbiTaxable(arg)

\* a call where the pre-QBI taxable income is positive and below 20% of
\* the profit, so that it is the cap that decides
C7_Witness ==
    /\ fn = "qbi_from_sch_c"
    /\ arg.sch_c > 0
    /\ PreQbiTaxable(arg) > 0
    /\ 5 * PreQbiTaxable(arg) < arg.sch_c
    /\ ret = PreQbiTaxable(arg)

\* C8: with the S-Corp election on, compute_scenario reports se_tax = 0
\* and total_tax = federal_tax, also when profit remains after the
\* reasonable compensation.
C8_SCorpNoSeTax ==
    (fn = "compute_scenario" /\ arg.s_corp) =>
        /\ res.se_tax = 0
        /\ res.total_tax = res.federal_tax

\* an S-Corp scenario whose profit exceeds the reasonable compensation
C8_Witness ==
    /\ fn = "compute_scenario"
    /\ arg.s_corp
    /\ arg.reasonable_comp > 0
    /\ arg.sch_c > arg.reasonable_comp
    /\ res.qbi > 0
    /\ res.federal_tax > 0

ValidInputs(inp) ==
    /\ inp.wages >= 0
    /\ inp.sch_c >= 0
    /\ inp.other_income >= 0
    /\ inp.itemized >= 0
    /\ inp.reasonable_comp >= 0

\* C9: with the election off, compute_scenario returns what
\* compute_baseline returns on the same Inputs, field by field, and that
\* is the same for every value of reasonable_comp.
C9_ScenarioIsBaseline ==
    (fn = "compute_scenario" /\ ~arg.s_corp) =>
        /\ res \in compute_baseline(arg)
        /\ \A rc \in {i.reasonable_comp : i \in InputsSet} :
              LET other == [arg EXCEPT !.reasonable_comp = rc]
              IN  /\ compute_scenario(arg) = compute_baseline(other)
                  /\ compute_scenario(other) = compute_baseline(arg)

\* a scenario without election, with a reasonable compensation entered
\* and SE tax due
C9_Witness ==
    /\ fn = "compute_scenario"
    /\ ~arg.s_corp
    /\ arg.reasonable_comp > 0
    /\ arg.sch_c > 0
    /\ res.se_tax > 0
    /\ res.qbi > 0

\* C10: compute_baseline returns qbi and se_tax computed on the raw sch_c,
\* taxable_income = max(0, taxable_income(raw) - qbi), federal_tax of that
\* amount and total_tax = federal_tax + se_tax, whatever s_corp and
\* reasonable_comp are.
C10_Baseline ==
    (fn = "compute_baseline" /\ ValidInputs(arg)) =>
        /\ res.qbi \in qbi_from_sch_c(arg.sch_c, arg.status, arg.wages,
                                      arg.other_income, arg.itemized)
        /\ res.se_tax \in se_tax_from_sch_c(arg.sch_c)
        /\ res.taxable_income =
              Max(0, taxable_income(arg.status, arg.wages, arg.sch_c,
                                    arg.other_income, arg.itemized)
                     - res.qbi)
        /\ res.federal_tax \in federal_tax(res.taxable_income, arg.status)
        /\ res.total_tax = res.federal_tax + res.se_tax
        /\ \A i \in InputsSet :
              (/\ i.status = arg.status
               /\ i.wages = arg.wages
               /\ i.sch_c = arg.sch_c
               /\ i.other_income = arg.other_income
               /\ i.itemized = arg.itemized) =>
                 compute_baseline(i) = compute_baseline(arg)

\* a baseline on Inputs that carry an election and a reasonable
\* compensation, with QBI and SE tax both positive
C10_Witness ==
    /\ fn = "compute_baseline"
    /\ arg.s_corp
    /\ arg.reasonable_comp > 0
    /\ res.qbi > 0
    /\ res.se_tax > 0
    /\ res.taxable_income > 0

\* the profit and the wages after the S-Corp reclassification, as the
\* claims describe them
AdjustedProfit(inp) ==
    IF inp.sch_c > inp.reasonable_comp
    THEN inp.sch_c - inp.reasonable_comp ELSE 0

AdjustedWages(inp) == inp.wages + inp.reasonable_comp

AdjustedInputs(inp) ==
    [inp EXCEPT !.wages = AdjustedWages(inp), !.sch_c = AdjustedProfit(inp)]

\* C11: with the election on, compute_scenario computes the QBI deduction
\* and the pre-QBI taxable income on profit max(0, sch_c - reasonable_comp)
\* and wages + reasonable_comp, and reports taxable_income = max(0, pre-QBI
\* taxable income - qbi) and the federal tax of that amount.
C11_SCorpSplit ==
    (fn = "compute_scenario" /\ arg.s_corp) =>
        LET adj == AdjustedInputs(arg)
        IN  /\ res.qbi \in qbi_from_sch_c(adj.sch_c, adj.status, adj.wages,
                                          adj.other_income, adj.itemized)
            /\ adj.sch_c > 0 =>
                  res.qbi \in round(FxMin(FxMul(Fx(adj.sch_c), 2, 10),
                                          Fx(PreQbiTaxable(adj))))
            /\ res.taxable_income = Max(0, PreQbiTaxable(adj) - res.qbi)
            /\ res.federal_tax \in federal_tax(res.taxable_income, arg.status)

\* an election whose reasonable compensation is positive and below the
\* profit, so that both wages and profit are adjusted and QBI remains
C11_Witness ==
    /\ fn = "compute_scenario"
    /\ arg.s_corp
    /\ arg.reasonable_comp > 0
    /\ arg.sch_c > arg.reasonable_comp
    /\ arg.wages > 0
    /\ res.qbi > 0
    /\ res.taxable_income > res.qbi

\* the first end-to-end example of the specification
Example ==
    [status |-> "MFJ", wages |-> Dollars(120000), sch_c |-> Dollars(60000),
     other_income |-> Dollars(5000), itemized |-> Dollars(12000)]

IsExample(inp) ==
    /\ inp.status = Example.status
    /\ inp.wages = Example.wages
    /\ inp.sch_c = Example.sch_c
    /\ inp.other_income = Example.other_income
    /\ inp.itemized = Example.itemized

\* C12 as stated: on the example without election the evaluation reports
\* qbi = 12000, taxable_income = 143800, federal_tax = federal_tax(143800,
\* MFJ) and se_tax = 8478.73.
C12_Original ==
    (fn \in {"compute_baseline", "compute_scenario"} /\ IsExample(arg)
       /\ ~arg.s_corp) =>
        /\ res.qbi = Dollars(12000)
        /\ res.taxable_income = Dollars(143800)
        /\ res.federal_tax \in federal_tax(Dollars(143800), "MFJ")
        /\ res.se_tax = 847873

\* C12 amended: on the example without election the evaluation reports
\* qbi = 12000, taxable_income = 143800, federal_tax = federal_tax(143800,
\* MFJ) = 21742.00 and se_tax = 8477.73 (6870.84 + 1606.89).
C12_Example ==
    (fn \in {"compute_baseline", "compute_scenario"} /\ IsExample(arg)
       /\ ~arg.s_corp) =>
        /\ res.qbi = Dollars(12000)
        /\ res.taxable_income = Dollars(143800)
        /\ res.federal_tax \in federal_tax(Dollars(143800), "MFJ")
        /\ res.federal_tax = 2174200
        /\ res.se_tax = 847773
        /\ res.se_tax = 687084 + 160689

\* the baseline evaluation of the example
C12_Witness ==
    /\ fn = "compute_baseline"
    /\ IsExample(arg)
    /\ ~arg.s_corp
    /\ res.se_tax > 0
    /\ res.total_tax = res.federal_tax + res.se_tax

\* C13: on the example with the election and reasonable_comp = 72000,
\* compute_scenario works on profit 0 and wages 192000 and reports
\* se_tax = 0, qbi = 0, taxable_income = 167800 and federal_tax =
\* federal_tax(167800, MFJ) = 27022.00.
C13_SCorpExample ==
    (fn = "compute_scenario" /\ IsExample(arg) /\ arg.s_corp
       /\ arg.reasonable_comp = Dollars(72000)) =>
        /\ AdjustedProfit(arg) = 0
        /\ AdjustedWages(arg) = Dollars(192000)
        /\ res.se_tax = 0
        /\ res.qbi = 0
        /\ res.taxable_income = Dollars(167800)
        /\ res.federal_tax \in federal_tax(Dollars(167800), "MFJ")
        /\ res.federal_tax = 2702200

\* the S-Corp scenario of the example
C13_Witness ==
    /\ fn = "compute_scenario"
    /\ IsExample(arg)
    /\ arg.s_corp
    /\ arg.reasonable_comp = Dollars(72000)
    /\ res.total_tax = res.federal_tax
    /\ res.federal_tax > 0

C19_GrossIncome ==
    (fn = "compute_scenario" /\ arg.s_corp /\ ValidInputs(arg)) =>
        LET pre   == res.taxable_income + res.qbi
            ded   == Max(STANDARD_DED[arg.status], arg.itemized)
            gross == arg.wages + arg.sch_c + arg.other_income
        IN  /\ arg.reasonable_comp <= arg.sch_c =>
                  /\ AdjustedWages(arg) + AdjustedProfit(arg)
                        = arg.wages + arg.sch_c
                  /\ pre = Max(0, gross - ded)
                  /\ \A b \in compute_baseline(arg) :
                        pre = b.taxable_income + b.qbi
            /\ arg.reasonable_comp > arg.sch_c =>
                  /\ AdjustedWages(arg) + AdjustedProfit(arg)
                        = arg.wages + arg.sch_c
                          + (arg.reasonable_comp - arg.sch_c)
                  /\ pre = Max(0, gross + (arg.reasonable_comp - arg.sch_c)
                                  - ded)

\* an election whose reasonable compensation exceeds the profit, with
\* taxable income left
C19_Witness ==
    /\ fn = "compute_scenario"
    /\ arg.s_corp
    /\ ValidInputs(arg)
    /\ arg.sch_c > 0
    /\ arg.reasonable_comp > arg.sch_c
    /\ res.taxable_income > 0

\* the functions that take a filing status
TakesStatus ==
    {"taxable_income", "federal_tax", "qbi_from_sch_c", "compute_baseline",
     "compute_scenario"}

\* C14: a call of a function that takes a filing status ends in an error
\* whenever the status is not S, MFJ or HOH: no such call returns a value.
C14_UnknownStatusRaises ==
    /\ fn \in TakesStatus => arg.status \in Statuses
    /\ exc # NoExc => exc.arg.status \notin Statuses

\* the Schedule C deductions of the run exceed the Schedule C profit
DeductionsExceedProfit ==
    \/ deduct_to_sc(app.ui.strategy_configs, 1) > app.ui.schc_1099
    \/ \E i \in 1 .. Len(app.ui.strategy_configs) :
          /\ app.ui.strategy_configs[i].type
                \in {"deduction_sc", "custom_augusta"}
          /\ app.ui.strategy_configs[i].target = "Schedule"
          /\ app.ui.strategy_configs[i].amount > app.ui.schc_1099

\* C16 as stated: every Inputs the caller passes to the engine has
\* non-negative wages, sch_c, other_income, itemized and reasonable_comp.
C16_Original ==
    fn # "none" => ValidInputs(arg)

\* C16 amended: every Inputs the caller passes to the engine has
\* non-negative wages, other_income, itemized and reasonable_comp; sch_c is
\* non-negative in the baseline Inputs, and in the scenario and
\* per-strategy Inputs it is negative only when the Schedule C deductions
\* entered exceed the Schedule C profit.
C16_CallerInputs ==
    fn # "none" =>
        /\ arg.wages >= 0
        /\ arg.other_income >= 0
        /\ arg.itemized >= 0
        /\ arg.reasonable_comp >= 0
        /\ app.pc = "baseline" => arg.sch_c >= 0
        /\ arg.sch_c < 0 => DeductionsExceedProfit

\* a per-strategy evaluation of an income-raising strategy, made after a
\* scenario with a Schedule C deduction
C16_Witness ==
    /\ app.pc = "sweep"
    /\ fn = "compute_scenario"
    /\ app.k = 3
    /\ app.ui.strategy_configs[1].type = "deduction_sc"
    /\ app.ui.strategy_configs[1].amount > 0
    /\ app.ui.strategy_configs[2].type = "income_increase"
    /\ arg = inp_only(app.ui, app.ui.strategy_configs[2])
    /\ arg.other_income > app.ui.other_income

\* the result evaluation c returns when it runs alone on its Inputs
Alone(c) ==
    IF calls[c].fn = "compute_baseline"
    THEN compute_baseline(calls[c].inp)
    ELSE compute_scenario(calls[c].inp)

\* C15: whatever the order in which the lines of the evaluations
\* interleave, every evaluation returns the result it returns when run
\* alone on the same Inputs, and two evaluations of one function on
\* identical Inputs return identical results.
C15_OrderIndependent ==
    \A c \in DOMAIN calls :
        calls[c].pc = "done" =>
            /\ calls[c].out \in Alone(c)
            /\ \A d \in DOMAIN calls :
                  /\ calls[d].pc = "done"
                  /\ calls[d].fn = calls[c].fn
                  /\ calls[d].inp = calls[c].inp
                  => calls[d].out = calls[c].out

\* every evaluation has returned, among them a baseline with SE tax and
\* an S-Corp scenario on other Inputs, with different results
C15_Witness ==
    /\ \A c \in DOMAIN calls : calls[c].pc = "done"
    /\ \E c, d \in DOMAIN calls :
          /\ c # d
          /\ calls[c].fn = "compute_baseline"
          /\ calls[d].fn = "compute_scenario"
          /\ calls[d].inp.s_corp
          /\ calls[c].inp # calls[d].inp
          /\ calls[c].out # calls[d].out
          /\ calls[c].out.se_tax > 0

\* C17: no line of compute_baseline or compute_scenario changes a field
\* of the Inputs object it was given, the reclassification of an S-Corp
\* writes a local, and no line writes to BRACKETS, STANDARD_DED or the
\* SE-tax constants.
C17_Frame ==
    [][/\ \A c \in DOMAIN calls : calls'[c].inp = calls[c].inp
       /\ tables' = tables]_vars

\* an S-Corp scenario has returned: its local sch is the profit less the
\* salary while the Inputs object still holds the whole profit
C17_Witness ==
    \E c \in DOMAIN calls :
        /\ calls[c].pc = "done"
        /\ calls[c].fn = "compute_scenario"
        /\ calls[c].inp.s_corp
        /\ calls[c].inp.reasonable_comp > 0
        /\ calls[c].sch = calls[c].inp.sch_c - calls[c].inp.reasonable_comp
        /\ calls[c].inp \in ParInputs
        /\ tables = Globals

===========================================================================
